---- MODULE Spec2Model ----
(***************************************************************************)
(* State-machine model of export_legacy_policy_bundle.py: one run of       *)
(* main(), from argument parsing to the closed output archive or to the    *)
(* uncaught exception that ends the process.  The controller is the        *)
(* environment: every HTTP request gets a nondeterministic outcome.        *)
(***************************************************************************)
EXTENDS Naturals, Sequences, FiniteSets

(* ---------------------------------------------------------------------- *)
(* Bounds and fixtures                                                     *)
(* ---------------------------------------------------------------------- *)

\* Longest gateway list the controller returns in list_vpcs_summary.
MaxGateways == 2

\* The gateways the controller may list.  Two of them share a vpc_id, so a
\* list may repeat a vpc_id.
Gateways ==
    { [vpc_id |-> "vpc1", gw_name |-> "gw1"],
      [vpc_id |-> "vpc1", gw_name |-> "gw2"],
      [vpc_id |-> "vpc2", gw_name |-> "gw3"] }

\* The sequences of at most n elements of S, none of them twice.
ListsUpTo(S, n) ==
    { s \in UNION { [1..k -> S] : k \in 0..n } :
        \A i, j \in DOMAIN s : i # j => s[i] # s[j] }

\* A listing names each gateway once, in any order.
GatewayLists == ListsUpTo(Gateways, MaxGateways)

\* The app-domain lists the controller may return on /v2.5/api/app-domains.
AnyWebGroup == [name |-> "Any-Web", uuid |-> "u1"]
OtherGroup == [name |-> "Other", uuid |-> "u2"]
AnyWebGroup2 == [name |-> "Any-Web", uuid |-> "u3"]
AppDomainLists ==
    { <<>>, <<OtherGroup>>, <<AnyWebGroup>>, <<OtherGroup, AnyWebGroup>>,
      <<AnyWebGroup, OtherGroup, AnyWebGroup2>> }

None == "None"
CidArg == "cid_from_args"
CidLogin == "cid_from_login"

(* ---------------------------------------------------------------------- *)
(* Program constants                                                       *)
(* ---------------------------------------------------------------------- *)

\* resources with its first two kinds exchanged.
resources_Reordered ==
    << "firewall_policy", "firewall", "firewall_tag",
       "fqdn", "fqdn_pass_through", "fqdn_tag_rule" >>

\* main: resources
resources ==
    << "firewall", "firewall_policy", "firewall_tag",
       "fqdn", "fqdn_pass_through", "fqdn_tag_rule" >>

\* "{}.tf".format(resource)
TfName(r) ==
    CASE r = "firewall" -> "firewall.tf"
      [] r = "firewall_policy" -> "firewall_policy.tf"
      [] r = "firewall_tag" -> "firewall_tag.tf"
      [] r = "fqdn" -> "fqdn.tf"
      [] r = "fqdn_pass_through" -> "fqdn_pass_through.tf"
      [] r = "fqdn_tag_rule" -> "fqdn_tag_rule.tf"

\* Paths, as their '/'-separated segments after the leading slash.
ApiPath == << "v2", "api" >>
AppDomainsPath == << "v2.5", "api", "app-domains" >>
ExportPath == << "v2", "api?action=export_terraform_resource" >>

(* ---------------------------------------------------------------------- *)
(* State                                                                   *)
(* ---------------------------------------------------------------------- *)

VARIABLES
    args,             \* parsed command line: cid, any_web, vpc_routes
    pc,               \* position of main()
    cid,              \* main's cid
    gateway_details,  \* main's gateway_details (parsed body)
    vpcs,             \* get_vpc_routes: dict vpc_id -> gw_name, insertion order
    vpc_routes,       \* get_vpc_routes: dict vpc_id -> route table
    any_webgroup,     \* main's any_webgroup
    last_app_domains, \* the list get_any_webgroup_id has just filtered
    idx,              \* index of the running loop (routes, resources, files)
    disk,             \* files of the working directory written by the run
    zf,               \* the output archive: state and entries
    reqs,             \* HTTP requests sent so far
    failed,           \* fetches whose request did not succeed, yet went on
    printed,          \* resources reported by "Could not extract TF resource"
    err               \* the uncaught exception that ended the process

vars == << args, pc, cid, gateway_details, vpcs, vpc_routes, any_webgroup,
           last_app_domains, idx, disk, zf, reqs, failed, printed, err >>

(* ---------------------------------------------------------------------- *)
(* Dictionaries (insertion-ordered, as Python's dict)                      *)
(* ---------------------------------------------------------------------- *)

Keys(d) == { d[i].k : i \in DOMAIN d }

HasKey(d, key) == key \in Keys(d)

Get(d, key) == d[CHOOSE i \in DOMAIN d : d[i].k = key].v

\* DictPut that leaves an existing key with the value it has.
DictPut_KeepsOld(d, key, value) ==
    IF HasKey(d, key) THEN d ELSE Append(d, [k |-> key, v |-> value])

\* d[key] = value: an existing key keeps its place and takes the new value.
DictPut(d, key, value) ==
    IF HasKey(d, key)
    THEN [ i \in DOMAIN d |-> IF d[i].k = key THEN [k |-> key, v |-> value] ELSE d[i] ]
    ELSE Append(d, [k |-> key, v |-> value])

(* ---------------------------------------------------------------------- *)
(* The controller's answers                                                *)
(* ---------------------------------------------------------------------- *)

\* What requests.get / requests.post followed by raise_for_status() did:
\* "ok" no exception, "http" HTTPError (non-2xx status, response received),
\* "conn", "timeout", "other" an exception raised before any response.
Outcomes == { "ok", "http", "conn", "timeout", "other" }

\* The local variable `response` is assigned only when a response arrived.
Bound(r) == r.outcome \in { "ok", "http" }

\* A response: parses - the body is JSON (for an export: a zip archive),
\* has - it holds the key the caller reads (for an export: the .tf entry),
\* val - the value under that key.
Responses(vals) ==
    { [outcome |-> o, parses |-> FALSE, has |-> FALSE, val |-> <<>>] : o \in Outcomes }
    \cup { [outcome |-> o, parses |-> TRUE, has |-> FALSE, val |-> <<>>] :
             o \in { "ok", "http" } }
    \cup { [outcome |-> o, parses |-> TRUE, has |-> TRUE, val |-> v] :
             o \in { "ok", "http" }, v \in vals }

\* The route table the controller holds for a gateway.
RouteTableOf(gw) == << [gateway |-> gw, destination |-> "0.0.0.0/0"] >>

(* ---------------------------------------------------------------------- *)
(* Transport                                                               *)
(* ---------------------------------------------------------------------- *)

\* "/v2.5/" in path: some segment other than the last is "v2.5".
IsV25(path) == \E i \in 1..(Len(path) - 1) : path[i] = "v2.5"

\* ApiRequest without its test of the path: the token always goes into the
\* query parameters.
ApiRequest_AlwaysQuery(fn, path, c, params) ==
    [ fn |-> fn, method |-> "GET", path |-> path,
      headers |-> <<>>,
      params |-> DictPut(params, "CID", c), data |-> <<>> ]

\* The request aviatrix_api_call sends.
ApiRequest(fn, path, c, params) ==
    IF IsV25(path)
    THEN [ fn |-> fn, method |-> "GET", path |-> path,
           headers |-> << [k |-> "Authorization", v |-> << "cid", c >>] >>,
           params |-> params, data |-> <<>> ]
    ELSE [ fn |-> fn, method |-> "GET", path |-> path,
           headers |-> <<>>,
           params |-> DictPut(params, "CID", c), data |-> <<>> ]

\* The request login sends.
LoginRequest ==
    [ fn |-> "login", method |-> "POST", path |-> ApiPath, headers |-> <<>>,
      params |-> <<>>,
      data |-> << [k |-> "action", v |-> "login"],
                  [k |-> "username", v |-> "user"],
                  [k |-> "password", v |-> "secret"] >> ]

\* The token a request carries, wherever it is placed.
TokenOf(req) ==
    IF HasKey(req.headers, "Authorization")
    THEN Get(req.headers, "Authorization")[2]
    ELSE IF HasKey(req.params, "CID") THEN Get(req.params, "CID")
    ELSE None

NoError == [exc |-> "none", site |-> "none", arg |-> "none", outcome |-> "none"]

\* An exception nobody catches ends the process with a traceback.
\* site(arg) is the call of main it came out of, outcome what the request
\* of that call had done.
Crash(exc, site, arg, outcome) ==
    /\ pc' = "crashed"
    /\ err' = [exc |-> exc, site |-> site, arg |-> arg, outcome |-> outcome]

\* Sent with a second attempt after the first.
Sent_Twice(req) == reqs' = Append(Append(reqs, req), req)

\* One HTTP request sent.
Sent(req) == reqs' = Append(reqs, req)

\* Bookkeeping: the request of fetch fn(arg) failed (no response, a non-2xx
\* status, or a body without what fn reads from it).
Note(fn, arg, bad) ==
    failed' = IF bad THEN failed \cup { [fn |-> fn, arg |-> arg] } ELSE failed

(* ---------------------------------------------------------------------- *)
(* Init                                                                    *)
(* ---------------------------------------------------------------------- *)

Args == [ cid : { None, CidArg }, any_web : BOOLEAN, vpc_routes : BOOLEAN ]

NoBody == [has |-> FALSE, val |-> <<>>]

Init ==
    /\ args \in Args
    /\ pc = "start"
    /\ cid = None
    /\ gateway_details = NoBody
    /\ vpcs = <<>>
    /\ vpc_routes = <<>>
    /\ any_webgroup = <<>>
    /\ last_app_domains = <<>>
    /\ idx = 0
    /\ disk = {}
    /\ zf = [state |-> "absent", entries |-> <<>>]
    /\ reqs = <<>>
    /\ failed = {}
    /\ printed = {}
    /\ err = NoError

(* ---------------------------------------------------------------------- *)
(* main: session                                                           *)
(* ---------------------------------------------------------------------- *)

\* login(): the value returned, given the answer to the POST.
\* Only a missing response, a body that is not JSON or a body without "CID"
\* stop it; the status of the response is printed and not looked at again.
LoginReturns(r) == Bound(r) /\ r.parses /\ r.has

\* args.cid == None: cid = login(...)
Login ==
    /\ pc = "start"
    /\ args.cid = None
    /\ \E r \in Responses({ << CidLogin >> }) :
         /\ Sent(LoginRequest)
         /\ Note("login", "none", r.outcome # "ok" \/ ~r.parses \/ ~r.has)
         /\ IF LoginReturns(r)
            THEN /\ cid' = r.val[1]
                 /\ pc' = "get_gateway_details"
                 /\ err' = err
            ELSE /\ cid' = cid
                 /\ Crash(IF ~Bound(r) THEN "UnboundLocalError"
                          ELSE IF ~r.parses THEN "JSONDecodeError"
                          ELSE "KeyError", "login", "none", r.outcome)
    /\ UNCHANGED << args, gateway_details, vpcs, vpc_routes, any_webgroup,
                    last_app_domains,
                    idx, disk, zf, printed >>

\* UseCid with the test on args.cid lost: login runs although a token was
\* supplied.
UseCid_LogsIn ==
    /\ pc = "start"
    /\ args.cid # None
    /\ Sent(LoginRequest)
    /\ cid' = CidLogin
    /\ pc' = "get_gateway_details"
    /\ UNCHANGED << args, gateway_details, vpcs, vpc_routes, any_webgroup,
                    last_app_domains, idx, disk, zf, failed, printed, err >>

\* else: cid = args.cid
UseCid ==
    /\ pc = "start"
    /\ args.cid # None
    /\ cid' = args.cid
    /\ pc' = "get_gateway_details"
    /\ UNCHANGED << args, gateway_details, vpcs, vpc_routes, any_webgroup,
                    last_app_domains,
                    idx, disk, zf, reqs, failed, printed, err >>

(* ---------------------------------------------------------------------- *)
(* main: fetches                                                           *)
(* ---------------------------------------------------------------------- *)

\* The exception a JSON fetch dies of, "none" when it returns: `return
\* response` with no response, response.json() on a body that is not JSON,
\* body[key] on a body without the key (needsKey: the fetch reads a key).
FetchException(r, needsKey) ==
    IF ~Bound(r) THEN "UnboundLocalError"
    ELSE IF ~r.parses THEN "JSONDecodeError"
    ELSE IF needsKey /\ ~r.has THEN "KeyError"
    ELSE "none"

\* gateway_details = get_gateway_details(args.controller_ip, cid)
GetGatewayDetails ==
    /\ pc = "get_gateway_details"
    /\ \E r \in Responses(GatewayLists) :
         /\ Sent(ApiRequest("get_gateway_details", ApiPath, cid,
                            << [k |-> "action", v |-> "list_vpcs_summary"] >>))
         /\ Note("get_gateway_details", "none", r.outcome # "ok" \/ ~r.parses)
         /\ IF FetchException(r, FALSE) = "none"
            THEN /\ gateway_details' = [has |-> r.has, val |-> r.val]
                 /\ pc' = IF args.vpc_routes THEN "get_vpc_routes"
                          ELSE "write_gateway_details"
                 /\ err' = err
            ELSE /\ gateway_details' = gateway_details
                 /\ Crash(FetchException(r, FALSE), "get_gateway_details", "none",
                          r.outcome)
    /\ UNCHANGED << args, cid, vpcs, vpc_routes, any_webgroup, last_app_domains, idx, disk, zf,
                    printed >>

\* VpcsOf storing the vpc_id where the gateway name belongs.
RECURSIVE VpcsOf_ById(_)
VpcsOf_ById(results) ==
    IF results = <<>> THEN <<>>
    ELSE LET n == Len(results)
         IN DictPut(VpcsOf_ById(SubSeq(results, 1, n - 1)),
                    results[n].vpc_id, results[n].vpc_id)

\* for gateway in results: vpcs[gateway['vpc_id']] = gateway['gw_name']
RECURSIVE VpcsOf(_)
VpcsOf(results) ==
    IF results = <<>> THEN <<>>
    ELSE LET n == Len(results)
         IN DictPut(VpcsOf(SubSeq(results, 1, n - 1)),
                    results[n].vpc_id, results[n].gw_name)

\* get_vpc_routes, up to its request loop.
GetVpcRoutes ==
    /\ pc = "get_vpc_routes"
    /\ IF gateway_details.has
       THEN /\ vpcs' = VpcsOf(gateway_details.val)
            /\ vpc_routes' = <<>>
            /\ idx' = 1
            /\ pc' = "route_loop"
            /\ err' = err
       ELSE /\ Crash("KeyError", "get_vpc_routes", "none", "none")
            /\ UNCHANGED << vpcs, vpc_routes, idx >>
    /\ UNCHANGED << args, cid, gateway_details, any_webgroup, last_app_domains, disk, zf, reqs,
                    failed, printed >>

\* One turn of `for vpc in pbar`.
GetVpcRoute ==
    /\ pc = "route_loop"
    /\ idx <= Len(vpcs)
    /\ LET vpc == vpcs[idx].k
           gw == vpcs[idx].v
       IN \E r \in Responses({ RouteTableOf(gw) }) :
            /\ Sent(ApiRequest("get_vpc_routes", ApiPath, cid,
                       << [k |-> "action", v |-> "get_transit_or_spoke_gateway_details"],
                          [k |-> "option", v |-> "vpc_route"],
                          [k |-> "gateway_name", v |-> gw] >>))
            /\ Note("get_vpc_routes", vpc, r.outcome # "ok" \/ ~r.parses \/ ~r.has)
            /\ IF FetchException(r, TRUE) = "none"
               THEN /\ vpc_routes' = DictPut(vpc_routes, vpc, r.val)
                    /\ idx' = idx + 1
                    /\ UNCHANGED << pc, err >>
               ELSE /\ Crash(FetchException(r, TRUE), "get_vpc_routes", vpc, r.outcome)
                    /\ UNCHANGED << vpc_routes, idx >>
    /\ UNCHANGED << args, cid, gateway_details, vpcs, any_webgroup, last_app_domains, disk, zf,
                    printed >>

\* The loop is over: json.dump(vpc_route_tables) to vpc_route_tables.json.
WriteVpcRouteTables ==
    /\ pc = "route_loop"
    /\ idx > Len(vpcs)
    /\ disk' = disk \cup { "vpc_route_tables.json" }
    /\ pc' = "write_gateway_details"
    /\ UNCHANGED << args, cid, gateway_details, vpcs, vpc_routes, any_webgroup,
                    last_app_domains,
                    idx, zf, reqs, failed, printed, err >>

\* json.dump(gateway_details) to gateway_details.json.
WriteGatewayDetails ==
    /\ pc = "write_gateway_details"
    /\ disk' = disk \cup { "gateway_details.json" }
    /\ pc' = IF args.any_web THEN "get_any_webgroup" ELSE "tf_loop"
    /\ idx' = 1
    /\ UNCHANGED << args, cid, gateway_details, vpcs, vpc_routes, any_webgroup,
                    last_app_domains,
                    zf, reqs, failed, printed, err >>

\* AnyWebOf stopping at the first group named "Any-Web".
AnyWebOf_First(app_domains) ==
    LET hits == SelectSeq(app_domains, LAMBDA x : x.name = "Any-Web")
    IN IF hits = <<>> THEN <<>> ELSE << hits[1] >>

\* [x for x in app_domains if x['name'] == "Any-Web"]
AnyWebOf(app_domains) ==
    SelectSeq(app_domains, LAMBDA x : x.name = "Any-Web")

\* any_webgroup = get_any_webgroup_id(...), dumped to any_webgroup.json.
GetAnyWebgroup ==
    /\ pc = "get_any_webgroup"
    /\ \E r \in Responses(AppDomainLists) :
         /\ Sent(ApiRequest("get_any_webgroup_id", AppDomainsPath, cid, <<>>))
         /\ Note("get_any_webgroup_id", "none",
                 r.outcome # "ok" \/ ~r.parses \/ ~r.has)
         /\ IF FetchException(r, TRUE) = "none"
            THEN /\ any_webgroup' = AnyWebOf(r.val)
                 /\ last_app_domains' = r.val
                 /\ disk' = disk \cup { "any_webgroup.json" }
                 /\ pc' = "tf_loop"
                 /\ err' = err
            ELSE /\ Crash(FetchException(r, TRUE), "get_any_webgroup_id", "none",
                          r.outcome)
                 /\ UNCHANGED << any_webgroup, last_app_domains, disk >>
    /\ UNCHANGED << args, cid, gateway_details, vpcs, vpc_routes, idx, zf,
                    printed >>

\* get_tf_resources: whether the try block extracted "<resource>.tf".
\* ZipFile() raises on content that is no archive, extract() on a missing
\* entry; the bare except catches both.
Extracted(r) == r.parses /\ r.has

\* One turn of `for resource in resources`.
GetTfResources ==
    /\ pc = "tf_loop"
    /\ idx <= Len(resources)
    /\ LET resource == resources[idx]
       IN \E r \in Responses({ << "tf" >> }) :
            /\ Sent(ApiRequest("get_tf_resources", ExportPath, cid,
                               << [k |-> "resource", v |-> resource] >>))
            /\ IF Bound(r)
               THEN /\ disk' = IF Extracted(r) THEN disk \cup { TfName(resource) }
                               ELSE disk
                    /\ printed' = IF Extracted(r) THEN printed
                                  ELSE printed \cup { resource }
                    /\ idx' = idx + 1
                    /\ pc' = IF idx = Len(resources) THEN "open_zip" ELSE pc
                    /\ err' = err
               ELSE /\ Crash("UnboundLocalError", "get_tf_resources", resource,
                          r.outcome)
                    /\ UNCHANGED << disk, printed, idx >>
    /\ last_app_domains' = <<>>
    /\ UNCHANGED << args, cid, gateway_details, vpcs, vpc_routes, any_webgroup,
                    zf, failed >>

(* ---------------------------------------------------------------------- *)
(* main: bundling                                                          *)
(* ---------------------------------------------------------------------- *)

\* ["{}.tf".format(x) for x in resources]
TfFiles == [ i \in DOMAIN resources |-> TfName(resources[i]) ]

\* other_files, given the flags.
OtherFiles(a) ==
    << "gateway_details.json" >>
    \o (IF a.any_web THEN << "any_webgroup.json" >> ELSE <<>>)
    \o (IF a.vpc_routes THEN << "vpc_route_tables.json" >> ELSE <<>>)

\* files
Files(a) == TfFiles \o OtherFiles(a)

\* zf = zipfile.ZipFile(args.output, mode="w")
OpenZip ==
    /\ pc = "open_zip"
    /\ zf' = [state |-> "open", entries |-> <<>>]
    /\ idx' = 1
    /\ pc' = "zip_loop"
    /\ UNCHANGED << args, cid, gateway_details, vpcs, vpc_routes, any_webgroup,
                    last_app_domains,
                    disk, reqs, failed, printed, err >>

\* ZipWrite without its zf.write(...): the staged file is removed and no
\* entry is written.
ZipWrite_RemovesOnly ==
    /\ pc = "zip_loop"
    /\ idx <= Len(Files(args))
    /\ Files(args)[idx] \in disk
    /\ disk' = disk \ { Files(args)[idx] }
    /\ idx' = idx + 1
    /\ UNCHANGED << args, pc, cid, gateway_details, vpcs, vpc_routes,
                    any_webgroup, last_app_domains, zf, reqs, failed, printed, err >>

\* ZipWrite without its os.remove(file_name): the entry is written and the
\* staged file stays.
ZipWrite_KeepsFile ==
    /\ pc = "zip_loop"
    /\ idx <= Len(Files(args))
    /\ Files(args)[idx] \in disk
    /\ zf' = [zf EXCEPT !.entries = Append(@, Files(args)[idx])]
    /\ idx' = idx + 1
    /\ UNCHANGED << args, pc, cid, gateway_details, vpcs, vpc_routes,
                    any_webgroup, last_app_domains, disk, reqs, failed, printed, err >>

\* One turn of `for file_name in files`: zf.write(...); os.remove(...)
ZipWrite ==
    /\ pc = "zip_loop"
    /\ idx <= Len(Files(args))
    /\ Files(args)[idx] \in disk
    /\ zf' = [zf EXCEPT !.entries = Append(@, Files(args)[idx])]
    /\ disk' = disk \ { Files(args)[idx] }
    /\ idx' = idx + 1
    /\ UNCHANGED << args, pc, cid, gateway_details, vpcs, vpc_routes,
                    any_webgroup, last_app_domains, reqs, failed, printed, err >>

\* ZipMissing with the handler inside the loop: the missing file is
\* reported and the loop goes on with the next one.
ZipMissing_Skips ==
    /\ pc = "zip_loop"
    /\ idx <= Len(Files(args))
    /\ Files(args)[idx] \notin disk
    /\ printed' = printed \cup { "An error occurred" }
    /\ idx' = idx + 1
    /\ UNCHANGED << args, pc, cid, gateway_details, vpcs, vpc_routes, any_webgroup,
                    last_app_domains, disk, zf, reqs, failed, err >>

\* zf.write raises FileNotFoundError: the loop is left, the handler prints
\* "An error occurred".
ZipMissing ==
    /\ pc = "zip_loop"
    /\ idx <= Len(Files(args))
    /\ Files(args)[idx] \notin disk
    /\ printed' = printed \cup { "An error occurred" }
    /\ pc' = "close_zip"
    /\ UNCHANGED << args, cid, gateway_details, vpcs, vpc_routes, any_webgroup,
                    last_app_domains,
                    idx, disk, zf, reqs, failed, err >>

\* finally: zf.close(), after the last file or after the handler.
CloseZip ==
    /\ \/ pc = "close_zip"
       \/ pc = "zip_loop" /\ idx > Len(Files(args))
    /\ zf' = [zf EXCEPT !.state = "closed"]
    /\ pc' = "done"
    /\ UNCHANGED << args, cid, gateway_details, vpcs, vpc_routes, any_webgroup,
                    last_app_domains,
                    idx, disk, reqs, failed, printed, err >>

(* ---------------------------------------------------------------------- *)
(* Specification                                                           *)
(* ---------------------------------------------------------------------- *)

Next ==
    \/ Login
    \/ UseCid
    \/ GetGatewayDetails
    \/ GetVpcRoutes
    \/ GetVpcRoute
    \/ WriteVpcRouteTables
    \/ WriteGatewayDetails
    \/ GetAnyWebgroup
    \/ GetTfResources
    \/ OpenZip
    \/ ZipWrite
    \/ ZipMissing
    \/ CloseZip

Spec == Init /\ [][Next]_vars

(* ---------------------------------------------------------------------- *)
(* Vocabulary of the properties                                            *)
(* ---------------------------------------------------------------------- *)

Range(f) == { f[i] : i \in DOMAIN f }

\* The run is over: main returned, or an exception ended the process.
Ended == pc \in { "done", "crashed" }

\* main has reached the bundling code.
Bundling == pc \in { "open_zip", "zip_loop", "close_zip", "done" }

\* The requests of one fetch function, and the fetches as a whole.
RequestsOf(fn) == { i \in DOMAIN reqs : reqs[i].fn = fn }
FetchRequests == { i \in DOMAIN reqs : reqs[i].fn # "login" }

\* The request of fn(arg) failed.
Failed(fn, arg) == [fn |-> fn, arg |-> arg] \in failed

\* Files the fetch phase wrote: a file leaves the disk only by ZipWrite,
\* which makes it an entry.
Staged == disk \cup Range(zf.entries)

\* The archive file exists at the output path.
ArchiveExists == zf.state # "absent"

\* zf.write raised during bundling.
BundleFailed == "An error occurred" \in printed

\* How many entries of the archive bear the name f.
EntriesNamed(f) == Cardinality({ i \in DOMAIN zf.entries : zf.entries[i] = f })

(* ---------------------------------------------------------------------- *)
(* C1 .. C10                                                               *)
(* ---------------------------------------------------------------------- *)

\* C1 (as claimed): with the route-table option, a gateway whose route-table
\* fetch fails never ends the run; once the loop is over every gateway was
\* asked for and the mapping holds exactly the gateways whose fetch succeeded
\* (N - M entries).
C1_RouteFailuresAreIsolated ==
    /\ ~(pc = "crashed" /\ err.site = "get_vpc_routes" /\ err.arg # "none")
    /\ (args.vpc_routes /\ (Bundling \/ pc \in { "write_gateway_details",
                                                 "get_any_webgroup", "tf_loop" }))
         => /\ Cardinality(RequestsOf("get_vpc_routes")) = Len(vpcs)
            /\ Keys(vpc_routes) =
                 { v \in Keys(vpcs) : ~Failed("get_vpc_routes", v) }

\* C2 (as claimed): a failing export never ends the run; when the exports
\* are over all six kinds were asked for and every kind without a .tf file
\* was reported.
C2_ExportFailuresAreIsolated ==
    /\ ~(pc = "crashed" /\ err.site = "get_tf_resources")
    /\ Bundling
         => /\ Cardinality(RequestsOf("get_tf_resources")) = Len(resources)
            /\ \A r \in Range(resources) :
                 TfName(r) \notin Staged => r \in printed

\* C3 (as claimed): a run that reaches its end with some exports failed has
\* bundled every artifact that was fetched: each staged file is exactly one
\* entry of the archive.
C3_PartialBundle ==
    pc = "done" => \A f \in Staged : EntriesNamed(f) = 1

\* C4 (as claimed): after a failed zf.write the run ends with the archive
\* removed and with every staged file still on disk, the ones written before
\* the failure included.
C4_BundleFailureKeepsStaged ==
    (pc = "done" /\ BundleFailed)
        => /\ ~ArchiveExists
           /\ Staged \subseteq disk

\* C5: when every file of the bundle list was staged, the finished run holds
\* one entry per file of the list and no other, no staged file is left on
\* disk, and with any_web set and vpc_routes clear there are 8 entries.
C5_RoundTrip ==
    (pc = "done" /\ Range(Files(args)) \subseteq Staged)
        => /\ zf.state = "closed"
           /\ Range(zf.entries) = Range(Files(args))
           /\ \A f \in Range(Files(args)) : EntriesNamed(f) = 1
           /\ disk = {}
           /\ (args.any_web /\ ~args.vpc_routes) => Len(zf.entries) = 8

\* C5 witness: a finished run with any_web set and vpc_routes clear whose
\* eight files were all staged and bundled.
C5_Witness ==
    /\ pc = "done"
    /\ args.any_web /\ ~args.vpc_routes
    /\ Range(Files(args)) \subseteq Staged
    /\ Len(zf.entries) = 8
    /\ disk = {}

\* C6 (as claimed): a fetch is sent only with a token supplied by the caller
\* or returned by a login that succeeded; after a failed login the run is
\* over with no fetch sent, nothing staged and no archive.
C6_SessionBeforeFetch ==
    /\ FetchRequests # {}
         => \/ args.cid # None
            \/ RequestsOf("login") # {} /\ ~Failed("login", "none")
    /\ Failed("login", "none")
         => /\ pc = "crashed"
            /\ FetchRequests = {}
            /\ Staged = {}
            /\ ~ArchiveExists

\* C7 (as claimed): login hands a token to main only when the request did
\* not fail and the body held one; otherwise login ends with an error and
\* main gets no token, whatever the body holds.
C7_LoginOutcome ==
    /\ cid = CidLogin => ~Failed("login", "none")
    /\ Failed("login", "none")
         => cid = None /\ pc = "crashed" /\ err.site = "login"

\* C8 (as claimed): once the gateway-list fetch has failed the run is over:
\* that request is the last one, gateway_details.json is not staged and no
\* archive exists.
C8_GatewayListingIsMandatory ==
    Failed("get_gateway_details", "none")
        => /\ pc = "crashed"
           /\ reqs[Len(reqs)].fn = "get_gateway_details"
           /\ "gateway_details.json" \notin Staged
           /\ ~ArchiveExists

\* C9 (as claimed): no run ends with an archive of zero entries.
C9_NoEmptyBundle ==
    Ended => ~(ArchiveExists /\ zf.entries = <<>>)

\* C10 (as claimed): a run that an exception ends during the fetch phase
\* leaves no intermediate file on disk.
C10_NoLeakOnAbort ==
    pc = "crashed" => disk = {}

(* ---------------------------------------------------------------------- *)
(* C11 .. C20                                                              *)
(* ---------------------------------------------------------------------- *)

\* C11 (as claimed): the transport hands every caller a success or a typed
\* failure: no fetch ends on an unassigned result, and what a failed call
\* answered is never used as a gateway list, a route table or an any-web
\* result.
C11_TransportTaggedOutcome ==
    /\ ~(err.exc = "UnboundLocalError" /\ err.site # "login")
    /\ Failed("get_gateway_details", "none") => pc = "crashed"
    /\ \A v \in Keys(vpc_routes) : ~Failed("get_vpc_routes", v)
    /\ Failed("get_any_webgroup_id", "none") => "any_webgroup.json" \notin Staged

\* The lookup has just returned: main is about to start the exports.
AnyWebReturned == args.any_web /\ pc = "tf_loop" /\ idx = 1

\* C12: when the lookup returns, its result holds the groups of the answer
\* named "Any-Web" and nothing else, as many as the answer holds (none when
\* it holds none), any_webgroup.json is written and main goes on with the
\* exports.
C12_AnyWebLookup ==
    AnyWebReturned =>
        LET hits == { i \in DOMAIN last_app_domains :
                        last_app_domains[i].name = "Any-Web" }
        IN /\ Len(any_webgroup) = Cardinality(hits)
           /\ \A x \in Range(any_webgroup) :
                x.name = "Any-Web" /\ x \in Range(last_app_domains)
           /\ \A i \in hits : last_app_domains[i] \in Range(any_webgroup)
           /\ "any_webgroup.json" \in disk
           /\ err = NoError

\* C12 witness: a successful answer holding only another group gave an empty
\* result and the run went on.
C12_Witness ==
    /\ AnyWebReturned
    /\ ~Failed("get_any_webgroup_id", "none")
    /\ last_app_domains = << OtherGroup >>
    /\ any_webgroup = <<>>

\* The request sent last.  The log grows by one request per step and no
\* request is sent once the archive is open, so what every state before that
\* shows of its newest request is shown of every request of the run.
Newest == reqs[Len(reqs)]
NewestIs(fn) == reqs # <<>> /\ ~ArchiveExists /\ Newest.fn = fn
NewestIsFetch == reqs # <<>> /\ ~ArchiveExists /\ Newest.fn # "login"

\* The gateway names of the gateway list main holds.
ListedNames ==
    { gateway_details.val[k].gw_name : k \in DOMAIN gateway_details.val }

\* C13: every route-table request comes after the gateway-list request, and
\* asks for a gateway named in the list that request returned.
C13_GatewayListBarrier ==
    NewestIs("get_vpc_routes")
        => /\ \E j \in 1..(Len(reqs) - 1) : reqs[j].fn = "get_gateway_details"
           /\ gateway_details.has
           /\ HasKey(Newest.params, "gateway_name")
           /\ Get(Newest.params, "gateway_name") \in ListedNames

\* C13 witness: the second route-table request of a run has been sent and
\* answered.
C13_Witness ==
    /\ pc = "route_loop" /\ NewestIs("get_vpc_routes")
    /\ Cardinality(RequestsOf("get_vpc_routes")) = 2

\* The first fetch of the run: the first request, or the one after login.
FirstFetch == IF reqs[1].fn = "login" THEN reqs[2] ELSE reqs[1]

\* C14: with a token supplied no login request is sent and every fetch
\* carries the supplied token; in every run each fetch carries the token the
\* first fetch carried.
C14_SuppliedToken ==
    /\ args.cid # None
         => /\ ~NewestIs("login")
            /\ NewestIsFetch => TokenOf(Newest) = args.cid
    /\ NewestIsFetch => TokenOf(Newest) = TokenOf(FirstFetch)

\* C14 witness: a run with a supplied token has sent its last request,
\* after the gateway, route-table, any-web and export requests, each with
\* that token.
C14_Witness ==
    /\ pc = "open_zip" /\ args.cid = CidArg /\ NewestIsFetch
    /\ RequestsOf("login") = {}
    /\ RequestsOf("get_vpc_routes") # {} /\ RequestsOf("get_any_webgroup_id") # {}
    /\ Cardinality(RequestsOf("get_tf_resources")) = Len(resources)
    /\ \A i \in FetchRequests : TokenOf(reqs[i]) = CidArg

(* ---------------------------------------------------------------------- *)
(* Order of the fetches and of the archive                                 *)
(* ---------------------------------------------------------------------- *)

\* The vpc_ids of a gateway list, each once, in order of first appearance.
DistinctVpcIds(results) ==
    LET firsts == { i \in DOMAIN results :
                      \A j \in 1..(i - 1) : results[j].vpc_id # results[i].vpc_id }
        nth(k) == CHOOSE i \in firsts : Cardinality({ j \in firsts : j < i }) = k - 1
    IN [ k \in 1..Cardinality(firsts) |-> results[nth(k)].vpc_id ]

\* The name of the last gateway of the list that has vpc_id v.
LastGatewayOf(results, v) ==
    LET last == CHOOSE i \in DOMAIN results :
                    /\ results[i].vpc_id = v
                    /\ \A j \in (i + 1)..Len(results) : results[j].vpc_id # v
    IN results[last].gw_name

\* The fetch a request belongs to: the function and what it asks for.
CallOf(req) ==
    [ fn |-> req.fn,
      arg |-> IF req.fn = "get_vpc_routes" THEN Get(req.params, "gateway_name")
              ELSE IF req.fn = "get_tf_resources" THEN Get(req.params, "resource")
              ELSE "none" ]

\* The fetches of a whole run, in order, as the arguments a and the gateway
\* list fix them.
ExpectedCalls(a, results) ==
    LET ids == IF a.vpc_routes THEN DistinctVpcIds(results) ELSE <<>>
    IN << [fn |-> "get_gateway_details", arg |-> "none"] >>
       \o [ k \in DOMAIN ids |->
              [fn |-> "get_vpc_routes", arg |-> LastGatewayOf(results, ids[k])] ]
       \o (IF a.any_web THEN << [fn |-> "get_any_webgroup_id", arg |-> "none"] >>
           ELSE <<>>)
       \o << [fn |-> "get_tf_resources", arg |-> "firewall"],
             [fn |-> "get_tf_resources", arg |-> "firewall_policy"],
             [fn |-> "get_tf_resources", arg |-> "firewall_tag"],
             [fn |-> "get_tf_resources", arg |-> "fqdn"],
             [fn |-> "get_tf_resources", arg |-> "fqdn_pass_through"],
             [fn |-> "get_tf_resources", arg |-> "fqdn_tag_rule"] >>

\* The bundle list, given the flags.
BundleList(a) ==
    << "firewall.tf", "firewall_policy.tf", "firewall_tag.tf",
       "fqdn.tf", "fqdn_pass_through.tf", "fqdn_tag_rule.tf",
       "gateway_details.json" >>
    \o (IF a.any_web THEN << "any_webgroup.json" >> ELSE <<>>)
    \o (IF a.vpc_routes THEN << "vpc_route_tables.json" >> ELSE <<>>)

\* The files of the bundle list on disk when bundling starts: all but the
\* .tf files whose export could not be extracted.
StagedAtStart ==
    Range(BundleList(args)) \ { TfName(r) : r \in printed \cap Range(resources) }

\* The longest prefix of list whose elements are all in S.
PrefixIn(list, S) ==
    LET n == CHOOSE k \in 0..Len(list) :
                 /\ \A i \in 1..k : list[i] \in S
                 /\ k < Len(list) => list[k + 1] \notin S
    IN SubSeq(list, 1, n)

\* How many fetch requests have been sent.
FetchCount == Len(reqs) - (IF reqs # <<>> /\ reqs[1].fn = "login" THEN 1 ELSE 0)

\* C15: the fetches and the archive entries of a run are a function of the
\* arguments and of the controller's answers, so two runs given the same of
\* both agree.  The n-th fetch request is the n-th of: gateway list, one
\* route table per vpc_id of the returned list when enabled, any-web when
\* enabled, the six resource kinds in list order; the entries of the closed
\* archive are the bundle list up to its first file that was not extracted.
C15_DeterministicOrder ==
    /\ NewestIsFetch
         => LET expected == ExpectedCalls(args, gateway_details.val)
            IN /\ FetchCount <= Len(expected)
               /\ CallOf(Newest) = expected[FetchCount]
    /\ pc = "done" => zf.entries = PrefixIn(BundleList(args), StagedAtStart)

\* C15 witness: a finished run with both flags that sent two route-table
\* requests and every other fetch, and bundled all nine files.
C15_Witness ==
    /\ pc = "done" /\ args.any_web /\ args.vpc_routes
    /\ FetchCount = 10
    /\ Len(zf.entries) = 9

(* ---------------------------------------------------------------------- *)
(* Transport: placement of the token, attempts                             *)
(* ---------------------------------------------------------------------- *)

\* The path has the versioned segment: "v2.5" with a segment after it.
Versioned(path) == "v2.5" \in Range(SubSeq(path, 1, Len(path) - 1))

\* The parameter names each fetch function passes to the transport.
CallerKeys(fn) ==
    CASE fn = "get_gateway_details" -> { "action" }
      [] fn = "get_vpc_routes" -> { "action", "option", "gateway_name" }
      [] fn = "get_any_webgroup_id" -> {}
      [] fn = "get_tf_resources" -> { "resource" }

\* C16: a request to a versioned path carries the token in its Authorization
\* header and no CID parameter; a request to any other path carries the
\* token as parameter CID next to the caller's parameters and has no
\* Authorization header.
C16_AuthPlacement ==
    NewestIsFetch
        => IF Versioned(Newest.path)
           THEN /\ Keys(Newest.headers) = { "Authorization" }
                /\ Get(Newest.headers, "Authorization") = << "cid", cid >>
                /\ Keys(Newest.params) = CallerKeys(Newest.fn)
           ELSE /\ Newest.headers = <<>>
                /\ Keys(Newest.params) = CallerKeys(Newest.fn) \cup { "CID" }
                /\ Get(Newest.params, "CID") = cid

\* C16 witness: the versioned any-web request went out with the header, the
\* export request after it with the CID parameter.
C16_Witness ==
    /\ NewestIs("get_tf_resources") /\ Len(reqs) > 1
    /\ ~Versioned(Newest.path) /\ HasKey(Newest.params, "CID")
    /\ reqs[Len(reqs) - 1].fn = "get_any_webgroup_id"
    /\ Versioned(reqs[Len(reqs) - 1].path)
    /\ HasKey(reqs[Len(reqs) - 1].headers, "Authorization")

\* main is about to call login or a fetch function: the next step is that
\* call, from its request to its return or its exception.
Calling ==
    \/ pc = "start" /\ args.cid = None
    \/ pc = "get_gateway_details"
    \/ pc = "route_loop" /\ idx <= Len(vpcs)
    \/ pc = "get_any_webgroup"
    \/ pc = "tf_loop"

\* C17: every call of login and of the transport adds exactly one request to
\* the log, whether it returns or raises, the steps between calls add none,
\* and the request added was never sent before in the run.
C17_NoRetries ==
    [][ IF Calling
        THEN /\ Len(reqs') = Len(reqs) + 1
             /\ SubSeq(reqs', 1, Len(reqs)) = reqs
             /\ \A j \in DOMAIN reqs : reqs[j] # reqs'[Len(reqs')]
        ELSE reqs' = reqs ]_vars

\* C17 witness: a run whose gateway-list and any-web requests failed has
\* finished with one request for each of its eleven calls.
C17_Witness ==
    /\ pc = "done" /\ Len(reqs) = 11
    /\ Failed("get_gateway_details", "none")
    /\ Failed("get_any_webgroup_id", "none")
    /\ Cardinality(RequestsOf("get_gateway_details")) = 1
    /\ Cardinality(RequestsOf("get_any_webgroup_id")) = 1

(* ---------------------------------------------------------------------- *)
(* Bundling                                                                *)
(* ---------------------------------------------------------------------- *)

\* C18: from the opening of the archive on, every file of the bundle list
\* that was on disk when bundling started is on disk or an entry of the
\* archive, and not both: a file leaves the disk only as an entry.
C18_WriteBeforeRemove ==
    ArchiveExists
        => \A f \in StagedAtStart : (f \in disk) # (f \in Range(zf.entries))

\* C18 witness: in the bundling loop, with files already moved into the
\* archive and others still on disk.
C18_Witness ==
    /\ pc = "zip_loop"
    /\ \E f \in StagedAtStart : f \in Range(zf.entries) /\ f \notin disk
    /\ \E f \in StagedAtStart : f \in disk /\ f \notin Range(zf.entries)

\* C19: the files main bundles are the bundle list; the entries of the
\* archive are always a prefix of it; once a file was found missing, it is
\* the file after the last entry, no later file of the list was written or
\* removed, and the run ends with the archive closed as it does when no file
\* is missing.
C19_BundlePrefix ==
    ArchiveExists
        => LET list == BundleList(args)
               n == Len(zf.entries)
           IN /\ Files(args) = list
              /\ n <= Len(list) /\ zf.entries = SubSeq(list, 1, n)
              /\ BundleFailed
                   => /\ pc \in { "close_zip", "done" }
                      /\ n < Len(list) /\ list[n + 1] \notin StagedAtStart
                      /\ LET later == Range(SubSeq(list, n + 2, Len(list)))
                         IN /\ later \cap Range(zf.entries) = {}
                            /\ later \cap StagedAtStart \subseteq disk
              /\ pc = "done" => zf.state = "closed"

\* C19 witness: a finished run that bundled some files, found the next one
\* missing and left a later staged file on disk, the archive closed.
C19_Witness ==
    /\ pc = "done" /\ BundleFailed /\ zf.state = "closed"
    /\ Len(zf.entries) >= 1
    /\ \E k \in (Len(zf.entries) + 2)..Len(BundleList(args)) :
         /\ BundleList(args)[k] \in disk
         /\ BundleList(args)[k] \notin Range(zf.entries)

(* ---------------------------------------------------------------------- *)
(* Route tables                                                            *)
(* ---------------------------------------------------------------------- *)

\* The route-table requests sent so far, in order.
RouteRequests == SelectSeq(reqs, LAMBDA q : q.fn = "get_vpc_routes")

\* get_vpc_routes is in its request loop, or a request of it has raised.
InGetVpcRoutes ==
    \/ pc = "route_loop"
    \/ pc = "crashed" /\ err.site = "get_vpc_routes" /\ err.arg # "none"

\* get_vpc_routes has returned and its result has been written.
VpcRoutesReturned == args.vpc_routes /\ pc = "write_gateway_details"

====
